---- MODULE Spec2Model ----
(***************************************************************************)
(* Model of the weight-less NFT launchpad: the 0G storage upload route     *)
(* (frontend/app/api/zg-storage/route.ts), the generation and mint flows   *)
(* of the generate page (frontend/app/generate/page.tsx) and the contract  *)
(* service (batchMintNFTs, mintNFT).                                       *)
(***************************************************************************)
EXTENDS Integers, Sequences, FiniteSets, TLC

(***************************************************************************)
(* Bounds of the model.                                                    *)
(***************************************************************************)
MaxUploads == 2
MaxGenCount == 3
MaxCount == 6
MaxSingles == 1

(***************************************************************************)
(* Program constants.                                                      *)
(***************************************************************************)
sectorSize == 256
feeBuffer == 2
UnboundedBatch == MaxCount + 4
UPLOAD_BATCH_SIZE == 5
MINT_BATCH_SIZE == 5

\* Input domains of one upload request.
Lengths == {0, 1, 256, 257, 10000}
Types == {"image", "json", "other"}
Balances == {0, 1, 8000, 20000}
Prices == {1, 100}

\* null of the source (a field that is absent or was never assigned)
Null == "null"

VARIABLES
    \* ---- chain and server configuration (environment of the route) ----
    hasKey,          \* SERVER_PRIVATE_KEY is configured
    walletBalance,   \* balance of the server wallet on chain
    marketPrice,     \* pricePerSector of the market contract, now
    numSubmissions,  \* submissions the flow contract has registered
    submissions,     \* the roots the flow contract registered, in index order
    nodeFiles,       \* <<root, bytes>> of the files the storage node holds
    hashed,          \* the answers of /api/upload-to-0g, in request order
    \* ---- one POST call of the storage route ----
    upc,             \* position of the handler
    uploads,         \* POST calls started so far
    reqType,         \* body.type
    contentLength,   \* contentBuffer.length
    tempFilePath,    \* TRUE when tempFilePath was assigned
    tempFileOnDisk,  \* the staging file exists in the temp directory
    zgFile,          \* "null" | "open" | "closed"
    balance,         \* balance read by the call, -1 before
    pricePerSector,  \* price read by the call, -1 before
    fee,             \* fee computed by the call, -1 before
    txSent,          \* transactions this call handed to the signer
    txValue,         \* value of the submit transaction, -1 if none
    txConfirmed,     \* tx.wait() returned a receipt
    submissionIndex, \* parsed from the receipt, -1 when null
    replication,     \* "none" | "ok" | "error" | "thrown"
    stepLog,         \* steps of the call that completed, in order
    response,        \* the JSON response, NoResponse until the call returns
    oracleSeen,      \* history: the market prices in force during the call
    \* ---- the generate page ----
    uploadedImage,      \* the user's reference picture (a data URL)
    count,              \* collection size chosen on the slider
    collectionStatus,   \* CollectionStatus
    generatedImages,    \* the items, by position; the position is the id
    gpc,                \* position of handleGenerate
    gi,                 \* loop index of handleGenerate (1-based)
    referenceImageData, \* reference passed to the next generateItem call
    genCalls,           \* history: the generateItem calls made, in order
    \* ---- handleMint ----
    mpc,                   \* position of handleMint
    completedNFTs,         \* ids of the items picked up, in order
    mi,                    \* start index i of the current batch (0-based)
    mtx,                   \* index in mintTxs of the transaction awaited
    imgOutcome,            \* per item: "none" | "pending" | "ok" | "fail"
    metaOutcome,           \* per item: "none" | "pending" | "ok" | "fail"
    imageUploadResults,    \* [nft, hash] of the images uploaded
    metadataUploadResults, \* [nft, imageHash, metadataHash] of the items to mint
    \* ---- the NFT contract ----
    tokenIdCounter,        \* _tokenIdCounter
    mintTxs,               \* the mint transactions sent, in order
    \* ---- handleMintSingle, per item ----
    spc,                   \* position of the single mint of the item
    sImageHash,            \* imageResult.hash
    sMetadataHash,         \* metadataResult.hash
    stx,                   \* index in mintTxs of the transaction awaited
    singles,               \* single mints started so far
    \* ---- the item cards ----
    regenerated,           \* ids the onRegenerate handler has logged
    \* ---- retryOperation of the generation routes ----
    retry                  \* the running call of retryOperation and its history

uploadVars == <<hasKey, walletBalance, marketPrice, numSubmissions, submissions,
                nodeFiles, hashed, upc,
                uploads, reqType,
                contentLength, tempFilePath, tempFileOnDisk, zgFile, balance,
                pricePerSector, fee, txSent, txValue, txConfirmed,
                submissionIndex, replication, stepLog, response,
                oracleSeen>>

genVars == <<uploadedImage, count, collectionStatus, generatedImages, gpc, gi,
             referenceImageData, genCalls>>

mintVars == <<mpc, completedNFTs, mi, mtx, imgOutcome, metaOutcome, imageUploadResults,
              metadataUploadResults, tokenIdCounter, mintTxs>>

singleVars == <<spc, sImageHash, sMetadataHash, stx, singles>>

cardVars == <<regenerated>>

pageVars == <<genVars, mintVars, singleVars, cardVars>>

retryVars == <<retry>>

vars == <<uploadVars, pageVars, retryVars>>

(***************************************************************************)
(* Pure helpers of the route.                                              *)
(***************************************************************************)
\* Math.ceil(Number(length) / sectorSize)
NumSectors(length) ==
    IF length % sectorSize = 0 THEN length \div sectorSize
                               ELSE (length \div sectorSize) + 1

NoBufferFee(price, length) == price * NumSectors(length)

\* fee = pricePerSector * BigInt(numSectors) * BigInt(2)
ComputeFee(price, length) == price * NumSectors(length) * feeBuffer

\* A root that also depends on the staging file, which is named per request
RootHashOfTempFile(length) == <<"root", length, uploads>>

\* rootHash = tree.rootHash(): the SDK's Merkle root of the file contents
RootHash(length) == <<"root", length>>

\* The success response of the route (route.ts 240-247)
SuccessResponse ==
    [success |-> TRUE, root |-> RootHash(contentLength), txHash |-> <<"tx", uploads>>,
     size |-> contentLength, type |-> reqType]

\* No response was sent yet
NoResponse == [pending |-> TRUE]

\* An error response: { success: false, error }
ErrorResponse(msg) == [success |-> FALSE, error |-> msg]

\* finally { if (tempFilePath) unlink(tempFilePath) }
NoUnlink(path, onDisk) == onDisk

Finally(path, onDisk) == IF path THEN FALSE ELSE onDisk

\* catch: close zgFile when it is set
CatchClose(f) == IF f = "open" THEN "closed" ELSE f

\* A throw anywhere inside the try block: catch (250-264), then finally.
Throw(msg) ==
    /\ zgFile' = CatchClose(zgFile)
    /\ response' = ErrorResponse(msg)
    /\ tempFileOnDisk' = Finally(tempFilePath, tempFileOnDisk)
    /\ upc' = "done"

UploadInit ==
    /\ hasKey \in BOOLEAN
    /\ walletBalance \in Balances
    /\ marketPrice \in Prices
    /\ numSubmissions = 0
    /\ submissions = <<>>
    /\ nodeFiles = {}
    /\ hashed = <<>>
    /\ upc = "idle"
    /\ uploads = 0
    /\ reqType = "image"
    /\ contentLength = 0
    /\ tempFilePath = FALSE
    /\ tempFileOnDisk = FALSE
    /\ zgFile = "null"
    /\ balance = -1
    /\ pricePerSector = -1
    /\ fee = -1
    /\ txSent = 0
    /\ txValue = -1
    /\ txConfirmed = FALSE
    /\ submissionIndex = -1
    /\ replication = "none"
    /\ stepLog = <<>>
    /\ response = NoResponse
    /\ oracleSeen = {}


(***************************************************************************)
(* POST of the storage route, one action per awaited step.  A step that    *)
(* throws runs the catch block and the finally block in the same action.   *)
(***************************************************************************)
chainVars == <<hasKey, walletBalance, marketPrice>>
callLocals == <<balance, pricePerSector, fee, txSent, txValue, txConfirmed,
                submissionIndex, replication>>

\* An early `return NextResponse.json(...)` inside the try block: finally runs.
Return(r) ==
    /\ response' = r
    /\ tempFileOnDisk' = Finally(tempFilePath, tempFileOnDisk)
    /\ upc' = "done"

\* route.ts 29-70: parse the body, check data, key and type, decode the content
ReceiveRequest(hasData, type, length) ==
    /\ upc \in {"idle", "done"}
    /\ uploads + Len(hashed) < MaxUploads
    /\ UNCHANGED <<pageVars, retryVars>>
    /\ uploads' = uploads + 1
    /\ reqType' = type
    /\ tempFilePath' = FALSE
    /\ zgFile' = "null"
    /\ balance' = -1
    /\ pricePerSector' = -1
    /\ fee' = -1
    /\ txSent' = 0
    /\ txValue' = -1
    /\ txConfirmed' = FALSE
    /\ submissionIndex' = -1
    /\ replication' = "none"
    /\ stepLog' = <<>>
    /\ oracleSeen' = {marketPrice}
    /\ UNCHANGED <<chainVars, numSubmissions, submissions, nodeFiles, hashed, tempFileOnDisk>>
    /\ \/ /\ ~hasData
          /\ contentLength' = 0
          /\ response' = ErrorResponse("No data provided")
          /\ upc' = "done"
       \/ /\ hasData /\ ~hasKey
          /\ contentLength' = 0
          /\ response' = ErrorResponse("Storage service not configured")
          /\ upc' = "done"
       \/ /\ hasData /\ hasKey /\ type \notin {"image", "json"}
          /\ contentLength' = 0
          /\ response' = ErrorResponse("Invalid type")
          /\ upc' = "done"
       \/ /\ hasData /\ hasKey /\ type \in {"image", "json"}
          \* JSON.stringify of a truthy value is never empty
          /\ type = "json" => length > 0
          /\ contentLength' = length
          /\ response' = NoResponse
          /\ upc' = "materialize"

\* route.ts 72-79: mkdir, tempFilePath = join(...), writeFile
Materialize ==
    /\ upc = "materialize"
    /\ UNCHANGED <<pageVars, retryVars>>
    /\ UNCHANGED <<chainVars, numSubmissions, submissions, nodeFiles, hashed, uploads, reqType,
                   contentLength,
                   callLocals, oracleSeen>>
    /\ \/ \* mkdir throws: tempFilePath is still null
          /\ tempFilePath' = FALSE
          /\ stepLog' = stepLog
          /\ Throw("mkdir failed")
       \/ \* writeFile throws: the path is set, the file may exist in part
          /\ tempFilePath' = TRUE
          /\ stepLog' = stepLog
          /\ zgFile' = CatchClose(zgFile)
          /\ response' = ErrorResponse("writeFile failed")
          /\ tempFileOnDisk' = Finally(TRUE, TRUE)
          /\ upc' = "done"
       \/ /\ tempFilePath' = TRUE
          /\ tempFileOnDisk' = TRUE
          /\ stepLog' = Append(stepLog, "materialize")
          /\ upc' = "balance"
          /\ UNCHANGED <<zgFile, response>>

\* route.ts 81-96: signer, getAddress, getBalance, the zero-balance return
CheckBalance ==
    /\ upc = "balance"
    /\ UNCHANGED <<pageVars, retryVars>>
    /\ UNCHANGED <<chainVars, numSubmissions, submissions, nodeFiles, hashed, uploads, reqType,
                   contentLength,
                   tempFilePath,
                   pricePerSector, fee, txSent, txValue, txConfirmed,
                   submissionIndex, replication, stepLog, oracleSeen>>
    /\ \/ /\ UNCHANGED balance
          /\ Throw("getBalance failed")
       \/ /\ balance' = walletBalance
          /\ walletBalance = 0
          /\ UNCHANGED zgFile
          /\ Return(ErrorResponse("Storage wallet has no funds"))
       \/ /\ balance' = walletBalance
          /\ walletBalance # 0
          /\ upc' = "tree"
          /\ UNCHANGED <<zgFile, response, tempFileOnDisk>>

\* route.ts 98-119: ZgFile.fromFilePath, merkleTree, createSubmission
BuildTree ==
    /\ upc = "tree"
    /\ UNCHANGED <<pageVars, retryVars>>
    /\ UNCHANGED <<chainVars, numSubmissions, submissions, nodeFiles, hashed, uploads, reqType,
                   contentLength,
                   tempFilePath,
                   callLocals, oracleSeen>>
    /\ \/ \* fromFilePath throws: zgFile is still null
          /\ stepLog' = stepLog
          /\ Throw("fromFilePath failed")
       \/ \* merkleTree or createSubmission returns an error: zgFile is open
          /\ stepLog' = stepLog
          /\ zgFile' = CatchClose("open")
          /\ response' = ErrorResponse("Failed to create merkle tree")
          /\ tempFileOnDisk' = Finally(tempFilePath, tempFileOnDisk)
          /\ upc' = "done"
       \/ /\ zgFile' = "open"
          /\ stepLog' = Append(stepLog, "tree")
          /\ upc' = "nodes"
          /\ UNCHANGED <<response, tempFileOnDisk>>

\* route.ts 125-136: indexer.selectNodes(1), getStatus, flowAddress
SelectNodes ==
    /\ upc = "nodes"
    /\ UNCHANGED <<pageVars, retryVars>>
    /\ UNCHANGED <<chainVars, numSubmissions, submissions, nodeFiles, hashed, uploads, reqType,
                   contentLength,
                   tempFilePath,
                   callLocals, stepLog, oracleSeen>>
    /\ \/ Throw("Failed to select storage nodes")
       \/ /\ upc' = "price"
          /\ UNCHANGED <<zgFile, response, tempFileOnDisk>>

\* route.ts 138-151: market(), pricePerSector(), the fee
QueryPrice ==
    /\ upc = "price"
    /\ UNCHANGED <<pageVars, retryVars>>
    /\ UNCHANGED <<chainVars, numSubmissions, submissions, nodeFiles, hashed, uploads, reqType,
                   contentLength,
                   tempFilePath,
                   balance, txSent, txValue, txConfirmed, submissionIndex,
                   replication, oracleSeen>>
    /\ \/ /\ UNCHANGED <<pricePerSector, fee, stepLog>>
          /\ Throw("pricePerSector failed")
       \/ /\ pricePerSector' = marketPrice
          /\ fee' = ComputeFee(marketPrice, contentLength)
          /\ stepLog' = Append(stepLog, "fee")
          /\ upc' = "submit"
          /\ UNCHANGED <<zgFile, response, tempFileOnDisk>>


\* indexer.upload(zgFile, rpc, signer, opts): the SDK sends its own submit
\* transaction unless opts.skipTx is set.
IndexerUploadTxs(skip) == IF skip THEN 0 ELSE 1

skipTxOff == FALSE

\* route.ts 219: skipTx: true
skipTx == TRUE

AfterSubmitNoWait == "replicate"

\* route.ts 175: the receipt is awaited before anything else is done
AfterSubmit == "wait"

\* route.ts 153-174: flowContract.submit(fullSubmission, { value: fee, ... }).
\* The transaction is signed and handed to the RPC node; the node takes it
\* only if the wallet covers the value.
Submit ==
    /\ upc = "submit"
    /\ UNCHANGED <<pageVars, retryVars>>
    /\ txSent' = txSent + 1
    /\ txValue' = fee
    /\ UNCHANGED <<chainVars, numSubmissions, submissions, nodeFiles, hashed, uploads, reqType,
                   contentLength,
                   tempFilePath, balance, pricePerSector, fee, txConfirmed,
                   submissionIndex, replication, stepLog, oracleSeen>>
    /\ \/ /\ walletBalance < fee
          /\ Throw("insufficient funds")
       \/ Throw("transaction rejected")
       \/ /\ walletBalance >= fee
          /\ upc' = AfterSubmit
          /\ UNCHANGED <<zgFile, response, tempFileOnDisk>>

RegisterOnce(registered, root) ==
    IF \E k \in 1..Len(registered) : registered[k] = root
    THEN registered ELSE Append(registered, root)

\* route.ts 153-175: every call sends its own flowContract.submit; the route
\* keeps nothing between calls and looks up no earlier submission of the root,
\* so the contract registers one more submission
Register(registered, root) == Append(registered, root)

\* submissionIndex = null: no log of the receipt parsed as a Submit event
NoIndex == 0 - 1

StopWithoutIndex(index) == IF index = NoIndex THEN "close" ELSE "replicate"

\* route.ts 184-207: the index is only logged; the route goes on to the upload
\* to the storage nodes whether it was found or not
AfterReceipt(index) == "replicate"

\* route.ts 175-200: tx.wait(), then the Submit event is looked for in the logs
WaitReceipt ==
    /\ upc = "wait"
    /\ UNCHANGED <<pageVars, retryVars>>
    /\ UNCHANGED <<hasKey, marketPrice, uploads, reqType, contentLength,
                   tempFilePath, balance, pricePerSector, fee, txSent, txValue,
                   replication, oracleSeen>>
    /\ \/ \* reverted, or no confirmation: tx.wait() throws
          /\ UNCHANGED <<walletBalance, numSubmissions, submissions, nodeFiles, hashed, txConfirmed,
                         submissionIndex, stepLog>>
          /\ Throw("transaction failed")
       \/ /\ walletBalance' = walletBalance - txValue
          /\ numSubmissions' = numSubmissions + 1
          /\ submissions' = Register(submissions, RootHash(contentLength))
          /\ txConfirmed' = TRUE
          /\ \/ submissionIndex' = numSubmissions
             \/ submissionIndex' = NoIndex
          /\ stepLog' = Append(stepLog, "submit")
          /\ upc' = AfterReceipt(submissionIndex')
          /\ UNCHANGED <<zgFile, response, tempFileOnDisk, nodeFiles, hashed>>

\* route.ts 202-233: indexer.upload with skipTx; an error is only logged
Replicate ==
    /\ upc = "replicate"
    /\ UNCHANGED <<pageVars, retryVars>>
    /\ txSent' = txSent + IndexerUploadTxs(skipTx)
    /\ stepLog' = Append(stepLog, "replicate")
    /\ upc' = "close"
    /\ \/ /\ replication' = "ok"
          /\ nodeFiles' = nodeFiles \cup {<<RootHash(contentLength), contentLength>>}
       \/ /\ replication' \in {"error", "thrown"}
          /\ UNCHANGED nodeFiles
    /\ UNCHANGED <<chainVars, numSubmissions, submissions, hashed, uploads, reqType, contentLength,
                   tempFilePath, tempFileOnDisk, zgFile, balance, pricePerSector,
                   fee, txValue, txConfirmed, submissionIndex, response,
                   oracleSeen>>

\* route.ts 235-247: zgFile.close(), the success response, then finally
Close ==
    /\ upc = "close"
    /\ UNCHANGED <<pageVars, retryVars>>
    /\ UNCHANGED <<chainVars, numSubmissions, submissions, nodeFiles, hashed, uploads, reqType,
                   contentLength,
                   tempFilePath, callLocals, stepLog, oracleSeen>>
    /\ \/ Throw("close failed")
       \/ /\ zgFile' = "closed"
          /\ Return(SuccessResponse)

\* The market contract changes its price (another account's transaction).
PriceChange ==
    /\ UNCHANGED <<pageVars, retryVars>>
    /\ \E p \in Prices \ {marketPrice} :
          /\ marketPrice' = p
          /\ oracleSeen' = IF upc \in {"idle", "done"} THEN oracleSeen
                           ELSE oracleSeen \cup {p}
    /\ UNCHANGED <<hasKey, walletBalance, numSubmissions, submissions, nodeFiles, hashed,
                   upc, uploads,
                   reqType,
                   contentLength, tempFilePath, tempFileOnDisk, zgFile,
                   callLocals, stepLog, response>>

(***************************************************************************)
(* POST of /api/upload-to-0g: one synchronous step after the body is read. *)
(***************************************************************************)
\* upload-to-0g/route.ts 54-57: '0x' + sha256(contentBuffer)
ContentHash(length) == <<"sha256", length>>

NoContentHash == <<>>

\* upload-to-0g/route.ts 17-68
UploadTo0G(hasData, type, length) ==
    /\ uploads + Len(hashed) < MaxUploads
    /\ type = "json" => length > 0
    /\ hashed' = Append(hashed,
          IF hasData /\ type \in {"image", "json"}
          THEN [success |-> TRUE, payload |-> length, hash |-> ContentHash(length)]
          ELSE [success |-> FALSE, payload |-> IF hasData THEN length ELSE 0,
                hash |-> NoContentHash])
    /\ UNCHANGED <<chainVars, numSubmissions, submissions, nodeFiles, upc, uploads,
                   reqType, contentLength, tempFilePath, tempFileOnDisk, zgFile,
                   callLocals, stepLog, response, oracleSeen>>
    /\ UNCHANGED <<pageVars, retryVars>>


NextUpload ==
    \/ \E hasData \in BOOLEAN, type \in Types, length \in Lengths :
          ReceiveRequest(hasData, type, length)
    \/ Materialize
    \/ CheckBalance
    \/ BuildTree
    \/ SelectNodes
    \/ QueryPrice
    \/ Submit
    \/ WaitReceipt
    \/ Replicate
    \/ Close
    \/ PriceChange
    \/ \E hasData \in BOOLEAN, type \in Types, length \in Lengths :
          UploadTo0G(hasData, type, length)


(***************************************************************************)
(* The generate page: state of the collection (generate/page.tsx).         *)
(***************************************************************************)
\* An image URL is modelled by what the data-URL regular expression reads
\* from it: `data:<mimeType>;base64,<data>`.  data.src tells the bytes apart:
\* "upload" the user's picture, "gen" the output of the n-th item, "empty"
\* no bytes at all.
Data(src, n) == [src |-> src, n |-> n]
Url(mime, data) == [mimeType |-> mime, data |-> data]

\* '' (imageResponse.imageUrl || '')
EmptyUrl == Url("", Data("empty", 0))
\* null (generateItem's catch block returns null)
NullUrl == Url("null", Data("empty", 0))
\* referenceImage: undefined
NoRef == [mimeType |-> "undefined", data |-> Data("empty", 0)]

\* url.match(/^data:([^;]+);base64,(.+)$/) and the object built from it
MatchDataUrl(url) ==
    IF url # NullUrl /\ url.mimeType # "" /\ url.data.src # "empty"
    THEN [mimeType |-> url.mimeType, data |-> url.data]
    ELSE NoRef

\* `if (imageUrl)`: neither null nor ''
Truthy(url) == url # NullUrl /\ url # EmptyUrl

NoHash == [kind |-> "none", of |-> 0, path |-> "none"]
NoTx == [kind |-> "none", n |-> 0]

\* page.tsx 221-227: a placeholder item
Placeholder ==
    [status |-> "pending", url |-> EmptyUrl, title |-> "", imageHash |-> NoHash,
     metadataHash |-> NoHash, txHash |-> NoTx, tokenId |-> -1]

\* setGeneratedImages(prev => prev.map(img => img.id === id ? {...img, ...} : img))
SetStatus(items, id, st) ==
    [n \in DOMAIN items |-> IF n = id THEN [items[n] EXCEPT !.status = st]
                                      ELSE items[n]]

ReferenceFromLast(i, imageUrl, current) ==
    IF Truthy(imageUrl) /\ MatchDataUrl(imageUrl) # NoRef
    THEN MatchDataUrl(imageUrl) ELSE current

\* page.tsx 241-255: only the first item's image replaces the reference
NextReference(i, imageUrl, current) ==
    IF i = 1 /\ Truthy(imageUrl) /\ MatchDataUrl(imageUrl) # NoRef
    THEN MatchDataUrl(imageUrl) ELSE current

\* What /api/generate-image can answer for item n: success with a data URL,
\* success with a data URL without bytes, or an error body.
ImageResponses(n) ==
    { [success |-> TRUE, imageUrl |-> Url("image/png", Data("gen", n))],
      [success |-> TRUE, imageUrl |-> Url("image/png", Data("empty", 0))],
      [success |-> FALSE, imageUrl |-> EmptyUrl] }

\* What /api/generate-metadata can answer: a title, or none
MetadataResponses == {[title |-> "generated"], [title |-> ""]}

\* metadataResponse.title || `${itemStyle} Artifact`
TitleOf(m) == IF m.title # "" THEN m.title ELSE "style Artifact"

\* What came back for one generateItem call: whether image generation answered
\* success, whether the metadata answer has a title, and which of the two
\* requests rejected
Reply(imageOk, hasTitle, imageThrew, metadataThrew) ==
    [imageOk |-> imageOk, hasTitle |-> hasTitle, imageThrew |-> imageThrew,
     metadataThrew |-> metadataThrew, pending |-> FALSE]

NoReply ==
    [imageOk |-> FALSE, hasTitle |-> FALSE, imageThrew |-> FALSE,
     metadataThrew |-> FALSE, pending |-> TRUE]

UploadedImages ==
    { Url("image/jpeg", Data("upload", 0)), Url("", Data("upload", 0)) }

GenInit ==
    /\ uploadedImage \in UploadedImages
    /\ count \in 1..MaxGenCount
    /\ collectionStatus = "idle"
    /\ generatedImages = <<>>
    /\ gpc = "idle"
    /\ gi = 0
    /\ referenceImageData = NoRef
    /\ genCalls = <<>>

\* page.tsx 196-231: handleGenerate up to the loop
HandleGenerate ==
    /\ gpc = "idle"
    /\ UNCHANGED <<uploadVars, retryVars, mintVars, singleVars, cardVars>>
    /\ Len(generatedImages) = 0
    /\ collectionStatus # "generating"
    /\ collectionStatus' = "generating"
    /\ generatedImages' = [n \in 1..count |-> Placeholder]
    /\ referenceImageData' = MatchDataUrl(uploadedImage)
    /\ gi' = 1
    /\ gpc' = "next"
    /\ UNCHANGED <<uploadedImage, count, genCalls>>

\* page.tsx 233-239 and 143-172: generateItem is called for item gi; it sets
\* the status and sends both requests
GenerateItemCall ==
    /\ gpc = "next"
    /\ UNCHANGED <<uploadVars, retryVars, mintVars, singleVars, cardVars>>
    /\ gi <= count
    /\ generatedImages' = SetStatus(generatedImages, gi, "generating")
    /\ genCalls' = Append(genCalls, [item |-> gi, referenceImage |-> referenceImageData,
                                     reply |-> NoReply])
    /\ gpc' = "await"
    /\ UNCHANGED <<uploadedImage, count, collectionStatus, gi, referenceImageData>>

LoopSkip ==
    /\ gi' = gi + 2
    /\ IF gi + 2 > count
       THEN gpc' = "done" /\ collectionStatus' = "ready"
       ELSE gpc' = "next" /\ UNCHANGED collectionStatus

\* page.tsx 258-261: the loop goes on, or generation is over
LoopStep ==
    /\ gi' = gi + 1
    /\ IF gi = count
       THEN gpc' = "done" /\ collectionStatus' = "ready"
       ELSE gpc' = "next" /\ UNCHANGED collectionStatus

\* page.tsx 174-187 and 241-255: both responses arrived
GenerateItemReturn ==
    /\ gpc = "await"
    /\ UNCHANGED <<uploadVars, retryVars, mintVars, singleVars, cardVars>>
    /\ \E img \in ImageResponses(gi), meta \in MetadataResponses :
          /\ generatedImages' =
                [generatedImages EXCEPT ![gi] =
                    [@ EXCEPT !.status = IF img.success THEN "completed" ELSE "failed",
                              !.url = img.imageUrl,
                              !.title = TitleOf(meta)]]
          /\ referenceImageData' = NextReference(gi, img.imageUrl, referenceImageData)
          /\ genCalls' = [genCalls EXCEPT ![Len(genCalls)].reply =
                              Reply(img.success, meta.title # "", FALSE, FALSE)]
    /\ LoopStep
    /\ UNCHANGED <<uploadedImage, count>>

\* page.tsx 155-172 and 188-193: one of the two fetch(...).then(res =>
\* res.json()) promises rejects (network error, or a body that is not JSON), so
\* Promise.all rejects whatever the other request answers; generateItem sets
\* the item to failed and returns null
GenerateItemThrow ==
    /\ gpc = "await"
    /\ UNCHANGED <<uploadVars, retryVars, mintVars, singleVars, cardVars>>
    /\ generatedImages' = SetStatus(generatedImages, gi, "failed")
    /\ referenceImageData' = NextReference(gi, NullUrl, referenceImageData)
    /\ \E imageThrew, metadataThrew \in BOOLEAN, img \in ImageResponses(gi),
          meta \in MetadataResponses :
          /\ imageThrew \/ metadataThrew
          /\ genCalls' = [genCalls EXCEPT ![Len(genCalls)].reply =
                              Reply(~imageThrew /\ img.success,
                                    ~metadataThrew /\ meta.title # "",
                                    imageThrew, metadataThrew)]
    /\ LoopStep
    /\ UNCHANGED <<uploadedImage, count>>

NextGen ==
    \/ HandleGenerate
    \/ GenerateItemCall
    \/ GenerateItemReturn
    \/ GenerateItemThrow


(***************************************************************************)
(* The mint flows of the generate page: handleMint (page.tsx 271-452),     *)
(* the storage service (storageService.ts), the contract service           *)
(* (batchMintNFTs, mintNFT) and the SketchNFT contract they call.          *)
(***************************************************************************)
Min(a, b) == IF a <= b THEN a ELSE b

Items == DOMAIN generatedImages

\* seq.slice(i, i + size), i counted from 0 as in the source
Slice(seq, i, size) == SubSeq(seq, i + 1, Min(i + size, Len(seq)))

Range(seq) == {seq[k] : k \in 1..Len(seq)}

\* generatedImages.filter(nft => nft.status === 'completed'), as ids in order
Completed(items) ==
    LET F[k \in 0..Len(items)] ==
            IF k = 0 THEN <<>>
            ELSE IF items[k].status = "completed" THEN Append(F[k - 1], k)
                 ELSE F[k - 1]
    IN F[Len(items)]

\* The content hash the storage route returns for the image of item n
\* (upload-to-0g/route.ts 54-57: one SHA-256 over the whole payload, no
\* Merkle tree and nothing stored)
ImageHash(n) == [kind |-> "image", of |-> n, path |-> "sha256"]

\* createMetadata(..., imageHash, ...) and the hash the route returns for it:
\* the metadata embeds the image hash, so its hash depends on it
MetadataHash(n, imageHash) ==
    [kind |-> "metadata", of |-> n, image |-> imageHash, path |-> "sha256"]

\* setGeneratedImages(prev => prev.map(...)) for every id of a set
MarkAll(items, ids, st) ==
    [n \in DOMAIN items |-> IF n \in ids THEN [items[n] EXCEPT !.status = st]
                                        ELSE items[n]]

AllIfAnyFailed(batch, outcome) ==
    IF \E n \in Range(batch) : outcome[n] # "ok" THEN Range(batch) ELSE {}

\* page.tsx 322-331 and 362-381: the items of a batch whose upload did not
\* return success with a hash
FailedOf(batch, outcome) == {n \in Range(batch) : outcome[n] # "ok"}

\* Every entry of a batch is pushed, failed or not
EveryEntryOf(batch, failed) == batch

\* the entries of a batch that are pushed to the result list, in batch order
SucceededOf(batch, failed) == SelectSeq(batch, LAMBDA n : n \notin failed)

\* ---- the SketchNFT contract (mint, batchMint) ----
\* The logs one mint(...) leaves in the receipt: ERC721 Transfer, ERC721URIStorage
\* MetadataUpdate, then NFTMinted
MintLogs(tokenId) ==
    << [name |-> "Transfer", tokenId |-> tokenId],
       [name |-> "MetadataUpdate", tokenId |-> tokenId],
       [name |-> "NFTMinted", tokenId |-> tokenId] >>

\* batchMint: mint(...) for each entry in order, then BatchMinted
BatchMintLogs(counter, k) ==
    LET F[j \in 0..k] ==
            IF j = 0 THEN <<>> ELSE F[j - 1] \o MintLogs(counter + j - 1)
    IN F[k] \o << [name |-> "BatchMinted", tokenId |-> -1] >>

\* ---- the contract service ----
\* part_009 177-191: the token ids of the NFTMinted logs, in log order
ParseTokenIds(logs) ==
    LET F[k \in 0..Len(logs)] ==
            IF k = 0 THEN <<>>
            ELSE IF logs[k].name = "NFTMinted"
                 THEN Append(F[k - 1], logs[k].tokenId)
                 ELSE F[k - 1]
    IN F[Len(logs)]

\* part_009 100-115: the token id of the first NFTMinted log, 0 when none
ParseFirstTokenId(logs) ==
    IF ParseTokenIds(logs) = <<>> THEN 0 ELSE ParseTokenIds(logs)[1]

TokenIdFirst(tokenIds, j) == IF Len(tokenIds) >= 1 THEN tokenIds[1] ELSE -1

\* page.tsx 418: batchResult.tokenIds[batchIndex]; undefined past the end
TokenIdAt(tokenIds, j) == IF j <= Len(tokenIds) THEN tokenIds[j] ELSE -1

TxHash(k) == [kind |-> "tx", n |-> k]

\* page.tsx 412-421: every item of the batch becomes minted
MarkMinted(items, batch, hash, tokenIds) ==
    [n \in DOMAIN items |->
        IF \E j \in 1..Len(batch) : batch[j].nft = n
        THEN LET j == CHOOSE j \in 1..Len(batch) : batch[j].nft = n
             IN [items[n] EXCEPT !.status = "minted", !.txHash = hash,
                                 !.tokenId = TokenIdAt(tokenIds, j)]
        ELSE items[n]]

NoOutcome == [n \in 1..0 |-> "none"]

MintInit ==
    /\ mpc = "idle"
    /\ completedNFTs = <<>>
    /\ mi = 0
    /\ mtx = 0
    /\ imgOutcome = NoOutcome
    /\ metaOutcome = NoOutcome
    /\ imageUploadResults = <<>>
    /\ metadataUploadResults = <<>>
    /\ tokenIdCounter = 0
    /\ mintTxs = <<>>

CardInit == regenerated = {}

SingleInit ==
    /\ spc = [n \in 1..count |-> "idle"]
    /\ sImageHash = [n \in 1..count |-> NoHash]
    /\ sMetadataHash = [n \in 1..count |-> NoHash]
    /\ stx = [n \in 1..count |-> 0]
    /\ singles = 0

\* page.tsx 435: the flow is over
FinishMint ==
    /\ collectionStatus' = "completed"
    /\ mpc' = "done"
    /\ mi' = 0

SkipMintBatches(results, i) == FinishMint

\* page.tsx 393-407: the mint batch at i: batchMintNFTs is called and sends
StartMintBatch(results, i) ==
    IF i < Len(results)
    THEN /\ mpc' = "mintSend"
         /\ mi' = i
         /\ UNCHANGED collectionStatus
    ELSE FinishMint

\* page.tsx 341-359: the metadata batch at i: every upload of it is started
StartMetaBatch(imageResults, i) ==
    /\ mpc' = "meta"
    /\ mi' = i
    /\ metaOutcome' = [n \in Items |->
                          IF n \in {r.nft : r \in Range(Slice(imageResults, i, UPLOAD_BATCH_SIZE))}
                          THEN "pending" ELSE metaOutcome[n]]
    /\ UNCHANGED collectionStatus

\* page.tsx 271-311: handleMint up to the first await
HandleMint ==
    /\ Len(generatedImages) > 0
    /\ collectionStatus \notin {"generating", "minting"}
    /\ mpc \in {"idle", "done"}
    /\ UNCHANGED <<uploadVars, retryVars, uploadedImage, count, gpc, gi, referenceImageData,
                   genCalls, singleVars, cardVars, mtx, tokenIdCounter, mintTxs>>
    /\ completedNFTs' = Completed(generatedImages)
    /\ imageUploadResults' = <<>>
    /\ metadataUploadResults' = <<>>
    /\ metaOutcome' = [n \in Items |-> "none"]
    /\ IF Completed(generatedImages) = <<>>
       THEN /\ collectionStatus' = "ready"
            /\ imgOutcome' = [n \in Items |-> "none"]
            /\ UNCHANGED <<generatedImages, mpc, mi>>
       ELSE /\ collectionStatus' = "minting"
            /\ LET batch == Range(Slice(Completed(generatedImages), 0, UPLOAD_BATCH_SIZE)) IN
               /\ generatedImages' = MarkAll(generatedImages, batch, "uploading")
               /\ imgOutcome' = [n \in Items |-> IF n \in batch THEN "pending" ELSE "none"]
               /\ mpc' = "image"
               /\ mi' = 0

CurrentImageBatch == Slice(completedNFTs, mi, UPLOAD_BATCH_SIZE)

\* storageService.ts 46-88: one uploadImage of the batch returns while others
\* are still in flight; it returns { success: false } for every failure
UploadImageDone(n, ok) ==
    /\ mpc = "image"
    /\ imgOutcome[n] = "pending"
    /\ \E m \in Items : m # n /\ imgOutcome[m] = "pending"
    /\ imgOutcome' = [imgOutcome EXCEPT ![n] = IF ok THEN "ok" ELSE "fail"]
    /\ UNCHANGED <<uploadVars, retryVars, genVars, singleVars, cardVars, mpc,
                   completedNFTs, mi, mtx,
                   metaOutcome,
                   imageUploadResults, metadataUploadResults, tokenIdCounter, mintTxs>>

\* page.tsx 314-333: the last uploadImage of the batch returns, Promise.all
\* resolves, the results are collected, and the loop goes on (next image
\* batch, or the first metadata batch, or the end of the flow)
ImageBatchDone(n, ok) ==
    /\ mpc = "image"
    /\ imgOutcome[n] = "pending"
    /\ \A m \in Items : m # n => imgOutcome[m] # "pending"
    /\ UNCHANGED <<uploadVars, retryVars, uploadedImage, count, gpc, gi, referenceImageData,
                   genCalls, singleVars, cardVars, completedNFTs, metadataUploadResults,
                   mtx, tokenIdCounter, mintTxs>>
    /\ LET outcome == [imgOutcome EXCEPT ![n] = IF ok THEN "ok" ELSE "fail"]
           failed == FailedOf(CurrentImageBatch, outcome)
           results == imageUploadResults \o
                        [k \in 1..Len(SucceededOf(CurrentImageBatch, failed)) |->
                            [nft |-> SucceededOf(CurrentImageBatch, failed)[k],
                             hash |-> ImageHash(SucceededOf(CurrentImageBatch, failed)[k])]]
           marked == MarkAll(generatedImages, failed, "failed")
       IN
       /\ imageUploadResults' = results
       /\ IF mi + UPLOAD_BATCH_SIZE < Len(completedNFTs)
          THEN /\ LET batch == Range(Slice(completedNFTs, mi + UPLOAD_BATCH_SIZE, UPLOAD_BATCH_SIZE)) IN
                  /\ generatedImages' = MarkAll(marked, batch, "uploading")
                  /\ imgOutcome' = [m \in Items |-> IF m \in batch THEN "pending" ELSE outcome[m]]
               /\ mpc' = "image"
               /\ mi' = mi + UPLOAD_BATCH_SIZE
               /\ UNCHANGED <<collectionStatus, metaOutcome>>
          ELSE /\ generatedImages' = marked
               /\ imgOutcome' = outcome
               /\ IF results = <<>>
                  THEN FinishMint /\ UNCHANGED metaOutcome
                  ELSE StartMetaBatch(results, 0)

CurrentMetaBatch == Slice(imageUploadResults, mi, UPLOAD_BATCH_SIZE)

\* storageService.ts 95-137: one uploadMetadata of the batch returns while
\* others are still in flight
UploadMetadataDone(n, ok) ==
    /\ mpc = "meta"
    /\ metaOutcome[n] = "pending"
    /\ \E m \in Items : m # n /\ metaOutcome[m] = "pending"
    /\ metaOutcome' = [metaOutcome EXCEPT ![n] = IF ok THEN "ok" ELSE "fail"]
    /\ UNCHANGED <<uploadVars, retryVars, genVars, singleVars, cardVars, mpc,
                   completedNFTs, mi, mtx,
                   imgOutcome,
                   imageUploadResults, metadataUploadResults, tokenIdCounter, mintTxs>>

\* page.tsx 361-382: what the collection of a metadata batch does to the items
CollectMetadata(items, batch, failed) ==
    [n \in DOMAIN items |->
        IF n \in failed THEN [items[n] EXCEPT !.status = "failed"]
        ELSE IF \E k \in 1..Len(batch) : batch[k].nft = n
        THEN LET k == CHOOSE k \in 1..Len(batch) : batch[k].nft = n
             IN [items[n] EXCEPT !.imageHash = batch[k].hash,
                                 !.metadataHash = MetadataHash(n, batch[k].hash),
                                 !.status = "minting"]
        ELSE items[n]]

\* page.tsx 345-407: the last uploadMetadata of the batch returns, the results
\* are collected, and the loop goes on (next metadata batch, or the first
\* mint batch, or the end of the flow)
MetaBatchDone(n, ok) ==
    /\ mpc = "meta"
    /\ metaOutcome[n] = "pending"
    /\ \A m \in Items : m # n => metaOutcome[m] # "pending"
    /\ UNCHANGED <<uploadVars, retryVars, uploadedImage, count, gpc, gi, referenceImageData,
                   genCalls, singleVars, cardVars, completedNFTs, imgOutcome, imageUploadResults,
                   mtx, tokenIdCounter, mintTxs>>
    /\ LET outcome == [metaOutcome EXCEPT ![n] = IF ok THEN "ok" ELSE "fail"]
           ids == [k \in 1..Len(CurrentMetaBatch) |-> CurrentMetaBatch[k].nft]
           failed == FailedOf(ids, outcome)
           kept == SelectSeq(CurrentMetaBatch, LAMBDA r : r.nft \notin failed)
           results == metadataUploadResults \o
                        [k \in 1..Len(kept) |->
                            [nft |-> kept[k].nft, imageHash |-> kept[k].hash,
                             metadataHash |-> MetadataHash(kept[k].nft, kept[k].hash)]]
       IN
       /\ metadataUploadResults' = results
       /\ generatedImages' = CollectMetadata(generatedImages, CurrentMetaBatch, failed)
       /\ IF mi + UPLOAD_BATCH_SIZE < Len(imageUploadResults)
          THEN /\ mpc' = "meta"
               /\ mi' = mi + UPLOAD_BATCH_SIZE
               /\ metaOutcome' =
                     [m \in Items |->
                        IF m \in {r.nft : r \in Range(Slice(imageUploadResults,
                                        mi + UPLOAD_BATCH_SIZE, UPLOAD_BATCH_SIZE))}
                        THEN "pending" ELSE outcome[m]]
               /\ UNCHANGED collectionStatus
          ELSE /\ metaOutcome' = outcome
               /\ StartMintBatch(results, 0)

CurrentMintBatch == Slice(metadataUploadResults, mi, MINT_BATCH_SIZE)

AllMintIds == {r.nft : r \in Range(metadataUploadResults)}

\* page.tsx 427-431: batch.forEach(({ nft }) => ... status: 'failed')
MintBatchIds == {r.nft : r \in Range(CurrentMintBatch)}

\* part_009 135-171: contract.batchMint(...) of the current batch is sent
BatchMintSend ==
    /\ mpc = "mintSend"
    /\ UNCHANGED <<uploadVars, retryVars, genVars, singleVars, cardVars, completedNFTs, mi,
                   imgOutcome,
                   metaOutcome, imageUploadResults, metadataUploadResults,
                   tokenIdCounter>>
    /\ mintTxs' = Append(mintTxs, [fn |-> "batchMint", nfts |-> CurrentMintBatch,
                                   state |-> "sent", logs |-> <<>>])
    /\ mtx' = Len(mintTxs) + 1
    /\ mpc' = "mintWait"

\* part_009 199-202 and page.tsx 423-432: the send is refused (the user rejects
\* it in the wallet, or the node does); every item of the batch fails
BatchMintRejected ==
    /\ mpc = "mintSend"
    /\ UNCHANGED <<uploadVars, retryVars, uploadedImage, count, gpc, gi, referenceImageData,
                   genCalls, singleVars, cardVars, completedNFTs, imgOutcome, metaOutcome,
                   imageUploadResults, metadataUploadResults, mtx, tokenIdCounter,
                   mintTxs>>
    /\ generatedImages' = MarkAll(generatedImages, MintBatchIds, "failed")
    /\ StartMintBatch(metadataUploadResults, mi + MINT_BATCH_SIZE)

\* part_009 173-198 and page.tsx 409-421: the batch transaction is mined; the
\* contract mints one token per entry, the token ids are read from the logs
BatchMintConfirmed ==
    /\ mpc = "mintWait"
    /\ UNCHANGED <<uploadVars, retryVars, uploadedImage, count, gpc, gi, referenceImageData,
                   genCalls, singleVars, cardVars, completedNFTs, imgOutcome, metaOutcome,
                   imageUploadResults, metadataUploadResults, mtx>>
    /\ LET logs == BatchMintLogs(tokenIdCounter, Len(CurrentMintBatch)) IN
       /\ tokenIdCounter' = tokenIdCounter + Len(CurrentMintBatch)
       /\ mintTxs' = [mintTxs EXCEPT ![mtx].state = "confirmed", ![mtx].logs = logs]
       /\ generatedImages' = MarkMinted(generatedImages, CurrentMintBatch, TxHash(mtx),
                                        ParseTokenIds(logs))
    /\ StartMintBatch(metadataUploadResults, mi + MINT_BATCH_SIZE)

\* page.tsx 423-432: tx.wait() throws (the transaction reverted)
BatchMintReverted ==
    /\ mpc = "mintWait"
    /\ UNCHANGED <<uploadVars, retryVars, uploadedImage, count, gpc, gi, referenceImageData,
                   genCalls, singleVars, cardVars, completedNFTs, imgOutcome, metaOutcome,
                   imageUploadResults, metadataUploadResults, mtx, tokenIdCounter>>
    /\ mintTxs' = [mintTxs EXCEPT ![mtx].state = "failed"]
    /\ generatedImages' = MarkAll(generatedImages, MintBatchIds, "failed")
    /\ StartMintBatch(metadataUploadResults, mi + MINT_BATCH_SIZE)

NextMint ==
    \/ HandleMint
    \/ \E n \in Items, ok \in BOOLEAN : UploadImageDone(n, ok)
    \/ \E n \in Items, ok \in BOOLEAN : ImageBatchDone(n, ok)
    \/ \E n \in Items, ok \in BOOLEAN : UploadMetadataDone(n, ok)
    \/ \E n \in Items, ok \in BOOLEAN : MetaBatchDone(n, ok)
    \/ BatchMintSend
    \/ BatchMintRejected
    \/ BatchMintConfirmed
    \/ BatchMintReverted

(***************************************************************************)
(* Receipts in which some NFTMinted logs do not parse with CONTRACT_ABI    *)
(* (part_009 13-26, 177-191: `catch { /* Not our event, skip */ }`): the   *)
(* contract that answers at CONTRACT_ADDRESS (part_009 9, configurable) is *)
(* not bound to be the build of this repository.                           *)
(***************************************************************************)
UnparsedLog == [name |-> "unparsed", tokenId |-> -1]

\* The logs of a receipt of which only the first k NFTMinted logs parse
KeepEvents(logs, k) ==
    [i \in DOMAIN logs |->
        IF logs[i].name = "NFTMinted" /\ Len(ParseTokenIds(SubSeq(logs, 1, i))) > k
        THEN UnparsedLog ELSE logs[i]]

\* part_009 173-198 and page.tsx 409-421 on such a receipt
BatchMintConfirmedShort(k) ==
    /\ mpc = "mintWait"
    /\ k < Len(CurrentMintBatch)
    /\ UNCHANGED <<uploadVars, retryVars, uploadedImage, count, gpc, gi, referenceImageData,
                   genCalls, singleVars, cardVars, completedNFTs, imgOutcome, metaOutcome,
                   imageUploadResults, metadataUploadResults, mtx>>
    /\ LET logs == KeepEvents(BatchMintLogs(tokenIdCounter, Len(CurrentMintBatch)), k) IN
       /\ tokenIdCounter' = tokenIdCounter + Len(CurrentMintBatch)
       /\ mintTxs' = [mintTxs EXCEPT ![mtx].state = "confirmed", ![mtx].logs = logs]
       /\ generatedImages' = MarkMinted(generatedImages, CurrentMintBatch, TxHash(mtx),
                                        ParseTokenIds(logs))
    /\ StartMintBatch(metadataUploadResults, mi + MINT_BATCH_SIZE)

NextReceipt == \E k \in 0..(MINT_BATCH_SIZE - 1) : BatchMintConfirmedShort(k)


(***************************************************************************)
(* handleMintSingle (page.tsx 455-538), one flow per item.                 *)
(***************************************************************************)
singleFrame == <<uploadVars, retryVars, cardVars, uploadedImage, count, collectionStatus, gpc, gi,
                 referenceImageData, genCalls, mpc, completedNFTs, mi, mtx, imgOutcome,
                 metaOutcome, imageUploadResults, metadataUploadResults>>

\* page.tsx 455-479: the click, up to the await of uploadImage
HandleMintSingle(n) ==
    /\ singles < MaxSingles
    /\ generatedImages[n].status = "completed"
    /\ spc[n] = "idle"
    /\ generatedImages' = SetStatus(generatedImages, n, "uploading")
    /\ spc' = [spc EXCEPT ![n] = "image"]
    /\ singles' = singles + 1
    /\ UNCHANGED <<singleFrame, sImageHash, sMetadataHash, stx, tokenIdCounter, mintTxs>>

\* page.tsx 527-537: the catch block puts the item back to completed
SingleFailed(n) ==
    /\ generatedImages' = SetStatus(generatedImages, n, "completed")
    /\ spc' = [spc EXCEPT ![n] = "idle"]

\* page.tsx 479-495: uploadImage returned
SingleImageDone(n, ok) ==
    /\ spc[n] = "image"
    /\ UNCHANGED <<singleFrame, sMetadataHash, stx, singles, tokenIdCounter, mintTxs>>
    /\ IF ok
       THEN /\ sImageHash' = [sImageHash EXCEPT ![n] = ImageHash(n)]
            /\ spc' = [spc EXCEPT ![n] = "meta"]
            /\ UNCHANGED generatedImages
       ELSE /\ SingleFailed(n)
            /\ UNCHANGED sImageHash

\* page.tsx 495-513: uploadMetadata returned; the item gets its hashes and
\* mintNFT is called
SingleMetaDone(n, ok) ==
    /\ spc[n] = "meta"
    /\ UNCHANGED <<singleFrame, sImageHash, stx, singles, tokenIdCounter, mintTxs>>
    /\ IF ok
       THEN /\ sMetadataHash' = [sMetadataHash EXCEPT ![n] = MetadataHash(n, sImageHash[n])]
            /\ generatedImages' =
                  [generatedImages EXCEPT ![n] =
                      [@ EXCEPT !.imageHash = sImageHash[n],
                                !.metadataHash = MetadataHash(n, sImageHash[n]),
                                !.status = "minting"]]
            /\ spc' = [spc EXCEPT ![n] = "mintSend"]
       ELSE /\ SingleFailed(n)
            /\ UNCHANGED sMetadataHash

\* page.tsx 513 and part_009 64-94: mintNFT(signer, metadataResult.hash,
\* imageResult.hash, ...) binds the metadata hash to the parameter imageHash
\* and the image hash to metadataHash; contract.mint is sent
SingleMintSend(n, ok) ==
    /\ spc[n] = "mintSend"
    /\ UNCHANGED <<singleFrame, sImageHash, sMetadataHash, singles, tokenIdCounter>>
    /\ IF ok
       THEN /\ mintTxs' = Append(mintTxs,
                  [fn |-> "mint",
                   nfts |-> << [nft |-> n, imageHash |-> sMetadataHash[n],
                                metadataHash |-> sImageHash[n]] >>,
                   state |-> "sent", logs |-> <<>>])
            /\ stx' = [stx EXCEPT ![n] = Len(mintTxs) + 1]
            /\ spc' = [spc EXCEPT ![n] = "mintWait"]
            /\ UNCHANGED generatedImages
       ELSE /\ SingleFailed(n)
            /\ UNCHANGED <<mintTxs, stx>>

\* part_009 96-122 and page.tsx 515-525: the transaction is mined, or reverts
SingleMintDone(n, ok) ==
    /\ spc[n] = "mintWait"
    /\ UNCHANGED <<singleFrame, sImageHash, sMetadataHash, stx, singles>>
    /\ IF ok
       THEN /\ tokenIdCounter' = tokenIdCounter + 1
            /\ mintTxs' = [mintTxs EXCEPT ![stx[n]].state = "confirmed",
                                          ![stx[n]].logs = MintLogs(tokenIdCounter)]
            /\ generatedImages' =
                  [generatedImages EXCEPT ![n] =
                      [@ EXCEPT !.status = "minted", !.txHash = TxHash(stx[n]),
                                !.tokenId = ParseFirstTokenId(MintLogs(tokenIdCounter))]]
            /\ spc' = [spc EXCEPT ![n] = "idle"]
       ELSE /\ mintTxs' = [mintTxs EXCEPT ![stx[n]].state = "failed"]
            /\ SingleFailed(n)
            /\ UNCHANGED tokenIdCounter

\* The items whose Mint button is clicked: one of the first upload batch and
\* the last one
SingleTargets == {1, count} \cap Items

NextSingle ==
    \/ \E n \in SingleTargets : HandleMintSingle(n)
    \/ \E n \in Items, ok \in BOOLEAN : SingleImageDone(n, ok)
    \/ \E n \in Items, ok \in BOOLEAN : SingleMetaDone(n, ok)
    \/ \E n \in Items, ok \in BOOLEAN : SingleMintSend(n, ok)
    \/ \E n \in Items, ok \in BOOLEAN : SingleMintDone(n, ok)

\* An item as generation leaves it
CompletedItem(n) ==
    [Placeholder EXCEPT !.status = "completed", !.url = Url("image/png", Data("gen", n)),
                        !.title = "generated"]
FailedItem == [Placeholder EXCEPT !.status = "failed", !.title = "style Artifact"]

\* The page after generation (page.tsx 261): every item completed or failed
GeneratedInit ==
    /\ uploadedImage = Url("image/jpeg", Data("upload", 0))
    /\ count \in 1..MaxCount
    /\ collectionStatus = "ready"
    /\ \E st \in [1..count -> {"completed", "failed"}] :
          generatedImages = [n \in 1..count |->
                                IF st[n] = "completed" THEN CompletedItem(n) ELSE FailedItem]
    /\ gpc = "done"
    /\ gi = count + 1
    /\ referenceImageData = NoRef
    /\ genCalls = <<>>

(***************************************************************************)
(* retryOperation (zg-storage/route.ts 373-395, generate-metadata/route.ts *)
(* 18-40): one call of it, one action per awaited step.                    *)
(***************************************************************************)
Routes == {"image", "metadata"}

\* retries = 3 in the image route, retries = 2 in the metadata route
DefaultRetries(route) == IF route = "image" THEN 3 ELSE 2

\* baseDelay = 3000 in the image route, baseDelay = 1000 in the metadata route
DefaultBaseDelay(route) == IF route = "image" THEN 3000 ELSE 1000

\* Math.random() * 1000, in milliseconds
Jitters == {0, 500, 999}

\* What an attempt can throw: message (as its words) and status
NoError == [message |-> <<>>, status |-> 0]

Errors ==
    { [message |-> <<"429", "Too Many Requests">>, status |-> 0],
      [message |-> <<"Quota", "exceeded">>, status |-> 0],
      [message |-> <<>>, status |-> 429],
      [message |-> <<"fetch", "failed">>, status |-> 500],
      [message |-> <<>>, status |-> 0] }

\* error.message?.includes(word)
Includes(message, word) == \E i \in DOMAIN message : message[i] = word

IsRateLimit(error) ==
    \/ Includes(error.message, "429")
    \/ Includes(error.message, "Quota")
    \/ error.status = 429

\* A retry after every error, rate limit or not
RetryAnyError(retries, error) == retries > 0

\* if (retries > 0 && isRateLimit)
ShouldRetry(retries, error) == retries > 0 /\ IsRateLimit(error)

RetryIdle ==
    [pc |-> "idle", route |-> "image", retries |-> 0, baseDelay |-> 0, calls |-> 0,
     delays |-> <<>>, error |-> NoError, thrown |-> NoError]

RetryInit == retry = RetryIdle

retryFrame == <<uploadVars, pageVars>>

\* retryOperation(operation) with the defaults of the route
RetryStart(route) ==
    /\ retry.pc \in {"idle", "returned", "threw"}
    /\ retry' = [RetryIdle EXCEPT !.pc = "call", !.route = route,
                                  !.retries = DefaultRetries(route),
                                  !.baseDelay = DefaultBaseDelay(route)]
    /\ UNCHANGED retryFrame

\* `return await operation()`
OperationResolves ==
    /\ retry.pc = "call"
    /\ retry' = [retry EXCEPT !.pc = "returned", !.calls = @ + 1, !.error = NoError]
    /\ UNCHANGED retryFrame

\* The catch block: wait(baseDelay + jitter), or `throw error`
OperationRejects(error, jitter) ==
    /\ retry.pc = "call"
    /\ IF ShouldRetry(retry.retries, error)
       THEN retry' = [retry EXCEPT !.pc = "wait", !.calls = @ + 1, !.error = error,
                                   !.delays = Append(@, retry.baseDelay + jitter)]
       ELSE retry' = [retry EXCEPT !.pc = "threw", !.calls = @ + 1, !.error = error,
                                   !.thrown = error]
    /\ UNCHANGED retryFrame

\* The timer fires: retryOperation(operation, retries - 1, baseDelay * 2)
RetryAgain ==
    /\ retry.pc = "wait"
    /\ retry' = [retry EXCEPT !.pc = "call", !.retries = @ - 1, !.baseDelay = @ * 2]
    /\ UNCHANGED retryFrame

RetryStep ==
    \/ OperationResolves
    \/ \E error \in Errors, jitter \in Jitters : OperationRejects(error, jitter)
    \/ RetryAgain

NextRetry ==
    \/ \E route \in Routes : RetryStart(route)
    \/ RetryStep


\* The storage route at rest (the page flows do not use it)
UploadIdle ==
    /\ UploadInit
    /\ hasKey
    /\ walletBalance = 0
    /\ marketPrice = 1

\* The page before anything was generated
GenIdle ==
    /\ GenInit
    /\ uploadedImage = Url("image/jpeg", Data("upload", 0))
    /\ count = 1

Init == UploadInit /\ GenIdle /\ MintInit /\ SingleInit /\ CardInit /\ RetryInit

InitGen == UploadIdle /\ GenInit /\ MintInit /\ SingleInit /\ CardInit /\ RetryInit

\* handleMint alone, from every outcome of generation
InitMint == UploadIdle /\ GeneratedInit /\ MintInit /\ SingleInit /\ CardInit /\ RetryInit

SpecMint == InitMint /\ [][NextMint]_vars

\* handleMint against a contract whose receipts may lack NFTMinted logs
SpecReceipt == InitMint /\ [][NextMint \/ NextReceipt]_vars

(***************************************************************************)
(* The item cards (NFTCard.tsx): the Retry / Regenerate button.            *)
(***************************************************************************)
\* NFTCard.tsx 55-103: a card with an image shows Regenerate unless the item is
\* minting or minted; a card without image shows Retry when the item failed.
\* page.tsx 1032: onRegenerate={() => console.log('Regenerate', nft.id)}
Regenerate(n) ==
    /\ IF generatedImages[n].url # EmptyUrl
       THEN generatedImages[n].status \notin {"minted", "minting"}
       ELSE generatedImages[n].status = "failed"
    /\ regenerated' = regenerated \cup {n}
    /\ UNCHANGED <<uploadVars, retryVars, genVars, mintVars, singleVars>>

NextCard == \E n \in Items : Regenerate(n)

\* A small collection after generation
InitCard ==
    /\ InitMint
    /\ count <= 2

\* handleMint and the buttons of the cards
SpecCard == InitCard /\ [][NextMint \/ NextCard]_vars

\* handleMint together with single mints, after a generation in which every
\* item completed
InitPage ==
    /\ InitMint
    /\ \A n \in Items : generatedImages[n].status = "completed"

SpecPage == InitPage /\ [][NextMint \/ NextSingle]_vars

SpecGen == InitGen /\ [][NextGen]_vars

\* Generation with the scheduling the event loop gives: the loop of
\* handleGenerate goes on to its next call by itself; a click and the arrival of
\* a response of the generation routes are not guaranteed
SpecGenLive == SpecGen /\ WF_vars(GenerateItemCall)


SpecRetry == Init /\ [][NextRetry]_vars

\* The event loop runs the continuation of a settled attempt and fires the
\* timer of wait(); every attempt settles.
SpecRetryLive == SpecRetry /\ WF_vars(RetryStep)

SpecUpload == Init /\ [][NextUpload]_vars


(***************************************************************************)
(* Properties of the storage route.                                        *)
(***************************************************************************)
\* The steps of one upload, in the order of the source
StepOrder == <<"materialize", "tree", "fee", "submit", "replicate">>

IsPrefix(s, t) == Len(s) <= Len(t) /\ \A i \in 1..Len(s) : s[i] = t[i]

\* The warning of a response; null when the response has no such field
Warning(r) == IF "warning" \in DOMAIN r THEN r.warning ELSE Null

\* ceil(n / d), from its definition: the least k with k * d >= n
Ceil(n, d) == CHOOSE k \in 0..n : k * d >= n /\ (k = 0 \/ (k - 1) * d < n)

InsufficientFundsErrors == {"Storage wallet has no funds", "insufficient funds"}

\* C1: when the balance read by the call is below the fee of the upload
\* (or is zero), the call fails with an insufficient-funds error and no
\* transaction was handed to the signer.
C1_InsufficientFundsBeforeBroadcast ==
    (upc = "done" /\ (balance = 0 \/ (fee >= 0 /\ balance >= 0 /\ balance < fee)))
        => /\ response.success = FALSE
           /\ response.error \in InsufficientFundsErrors
           /\ txSent = 0

\* C2: when the submit transaction was confirmed and the push to the storage
\* nodes failed, the call returns success with the root hash and a non-null
\* warning.
C2_ReplicationFailureWarns ==
    (upc = "done" /\ txConfirmed /\ replication \in {"error", "thrown"}
        /\ response # ErrorResponse("close failed"))
        => /\ response.success
           /\ response.root = RootHash(contentLength)
           /\ Warning(response) # Null

C4_AtMostOneSubmit ==
    /\ txSent <= 1
    /\ (upc = "done" /\ response.success) => txSent = 1

C4_Witness ==
    /\ upc = "done"
    /\ response.success
    /\ replication = "ok"
    /\ txSent = 1

C6_FeeFormula ==
    /\ txValue # -1 =>
          /\ txValue = pricePerSector * Ceil(contentLength, sectorSize) * 2
          /\ pricePerSector \in oracleSeen
    /\ (txValue # -1 /\ contentLength = 10000 /\ pricePerSector = 100)
          => txValue = 8000

C6_Witness ==
    /\ txConfirmed
    /\ contentLength = 10000
    /\ pricePerSector = 100
    /\ txValue = 8000

(***************************************************************************)
(* Properties of generation.                                               *)
(***************************************************************************)
\* The reference that carries the bytes of item 1's generated image
FirstOutput == [mimeType |-> "image/png", data |-> Data("gen", 1)]

\* The reference that carries the user's uploaded picture; undefined when the
\* picture is no base64 data URL
UploadedReference ==
    IF uploadedImage.mimeType # "" THEN
        [mimeType |-> uploadedImage.mimeType, data |-> uploadedImage.data]
    ELSE NoRef

\* Item 1's generation returned an image with bytes
FirstHasImage ==
    /\ Len(generatedImages) >= 1
    /\ generatedImages[1].url.data.src = "gen"

\* C8 (as stated): the generation call of item 1 gets no referenceImage, and
\* the call of every later item gets item 1's generated output.
C8_ReferenceIsFirstOutput ==
    \A k \in 1..Len(genCalls) :
        /\ genCalls[k].item = 1 => genCalls[k].referenceImage = NoRef
        /\ genCalls[k].item >= 2 => genCalls[k].referenceImage = FirstOutput

\* C8 (amended): the call of item 1 gets the uploaded picture as reference;
\* the call of every later item gets item 1's generated output when item 1
\* returned an image with bytes, and otherwise the reference item 1 got.
C8_ReferenceChain ==
    \A k \in 1..Len(genCalls) :
        /\ genCalls[k].item = k
        /\ k = 1 => genCalls[k].referenceImage = UploadedReference
        /\ k >= 2 => genCalls[k].referenceImage =
                        IF FirstHasImage THEN FirstOutput ELSE UploadedReference

C8_Witness ==
    /\ Len(genCalls) >= 3
    /\ generatedImages[2].url.data.src = "gen"
    /\ genCalls[1].referenceImage.data.src = "upload"
    /\ genCalls[2].referenceImage = FirstOutput
    /\ genCalls[3].referenceImage = FirstOutput

(***************************************************************************)
(* Properties of the mint flows.                                           *)
(***************************************************************************)
Status(n) == generatedImages[n].status

\* The ids in a list of upload results
Nfts(results) == {results[k].nft : k \in 1..Len(results)}

\* Position of item n in the list handleMint picked up (0 when absent)
PickedAt(n) ==
    IF \E k \in 1..Len(completedNFTs) : completedNFTs[k] = n
    THEN CHOOSE k \in 1..Len(completedNFTs) : completedNFTs[k] = n
    ELSE 0

\* The image upload of item n returned and its batch was collected
ImageCollected(n) ==
    /\ PickedAt(n) > 0
    /\ imgOutcome[n] \in {"ok", "fail"}
    /\ mpc = "image" => PickedAt(n) <= mi

\* The metadata upload of item n returned and its batch was collected
MetaCollected(n) ==
    /\ metaOutcome[n] \in {"ok", "fail"}
    /\ mpc = "meta" => \A k \in 1..Len(CurrentMetaBatch) : CurrentMetaBatch[k].nft # n

\* C7: in the batch mint flow a failed image upload sets only its own item to
\* failed: the item is failed and is dropped, while every item of the batch
\* whose own upload succeeded keeps its status, is kept for the metadata
\* upload, and has its metadata upload attempted before the flow ends.
C7_UploadFailureIsolated ==
    \A n \in Items :
        ImageCollected(n) =>
            /\ imgOutcome[n] = "fail" =>
                  (Status(n) = "failed" /\ n \notin Nfts(imageUploadResults))
            /\ imgOutcome[n] = "ok" =>
                  /\ n \in Nfts(imageUploadResults)
                  /\ ~MetaCollected(n) => Status(n) = "uploading"
                  /\ (MetaCollected(n) /\ metaOutcome[n] = "ok") =>
                        n \in Nfts(metadataUploadResults)
                  /\ mpc = "done" => metaOutcome[n] \in {"ok", "fail"}

C7_Witness ==
    /\ mpc = "done"
    /\ completedNFTs = <<1, 2, 3, 4, 5>>
    /\ imgOutcome[3] = "fail"
    /\ Status(3) = "failed"
    /\ \A n \in {1, 2, 4, 5} : Status(n) = "minted"

Rank(st) ==
    CASE st = "pending" -> 0
      [] st = "generating" -> 1
      [] st \in {"completed", "failed"} -> 2
      [] st = "uploading" -> 3
      [] st = "minting" -> 4
      [] st = "minted" -> 5

\* A move against the order pending, generating, completed/failed, uploading,
\* minting, minted; failing is never a move backward
Backward(from, to) == to # "failed" /\ Rank(to) < Rank(from)

\* C9: no step moves the status of an item backward (failed -> completed of a
\* manual retry is no move backward); in particular nothing moves an item from
\* uploading, minting or minted back to completed.
C9_NoBackwardStatus ==
    [][\A n \in Items : ~Backward(generatedImages[n].status, generatedImages'[n].status)]_vars

\* The NFTMinted events of a receipt, in log order
MintedEvents(logs) == SelectSeq(logs, LAMBDA l : l.name = "NFTMinted")

\* C10: a mint batch has at most 5 items and is sent in one batchMint
\* transaction; once it is confirmed the j-th item of the batch carries the
\* token id of the j-th NFTMinted event, every item of the batch is minted with
\* the hash of that transaction, and no item is in two transactions.
C10_BatchMintTokenIds ==
    /\ \A t \in 1..Len(mintTxs) :
          /\ Len(mintTxs[t].nfts) \in 1..5
          /\ mintTxs[t].state = "confirmed" =>
                /\ Len(MintedEvents(mintTxs[t].logs)) = Len(mintTxs[t].nfts)
                /\ \A j \in 1..Len(mintTxs[t].nfts) :
                      LET item == generatedImages[mintTxs[t].nfts[j].nft] IN
                      /\ item.status = "minted"
                      /\ item.txHash = TxHash(t)
                      /\ item.tokenId = MintedEvents(mintTxs[t].logs)[j].tokenId
    /\ \A t, u \in 1..Len(mintTxs) :
          t # u => Nfts(mintTxs[t].nfts) \cap Nfts(mintTxs[u].nfts) = {}
    /\ \A n \in Items :
          Status(n) = "minted" =>
              \E t \in 1..Len(mintTxs) :
                  mintTxs[t].state = "confirmed" /\ n \in Nfts(mintTxs[t].nfts)

C10_Witness ==
    /\ mpc = "done"
    /\ Len(mintTxs) = 1
    /\ mintTxs[1].state = "confirmed"
    /\ Len(mintTxs[1].nfts) = 5
    /\ \A n \in 1..5 : Status(n) = "minted" /\ generatedImages[n].tokenId = n - 1
                        /\ generatedImages[n].txHash = TxHash(1)

\* The starts of the mint batches handleMint cuts metadataUploadResults into
MintBatchStarts ==
    {i \in 0..Len(metadataUploadResults) :
        i < Len(metadataUploadResults) /\ i % MINT_BATCH_SIZE = 0}

\* The transactions sent for a batch
TxsOf(batch) == {t \in 1..Len(mintTxs) : mintTxs[t].nfts = batch}

\* C11: when the batchMint transaction of a mint batch fails (refused or
\* reverted), every item of that batch is failed; the items of every other
\* batch have the status of their own batch's outcome (minted when its
\* transaction was confirmed), and every batch was attempted when the flow ends.
C11_MintBatchFailureIsolated ==
    /\ \A t \in 1..Len(mintTxs) :
          mintTxs[t].state = "failed" =>
              \A n \in Nfts(mintTxs[t].nfts) : Status(n) = "failed"
    /\ mpc = "done" =>
          \A i \in MintBatchStarts :
              LET batch == Slice(metadataUploadResults, i, MINT_BATCH_SIZE) IN
              /\ Cardinality(TxsOf(batch)) <= 1
              /\ \A n \in Nfts(batch) :
                    IF \E t \in TxsOf(batch) : mintTxs[t].state = "confirmed"
                    THEN Status(n) = "minted"
                    ELSE Status(n) = "failed"

\* the first mint batch reverted, the second was still sent and confirmed
C11_Witness ==
    /\ mpc = "done"
    /\ Len(mintTxs) = 2
    /\ mintTxs[1].state = "failed" /\ Len(mintTxs[1].nfts) = 5
    /\ mintTxs[2].state = "confirmed"
    /\ \A n \in 1..5 : Status(n) = "failed"
    /\ Status(6) = "minted"

\* C12: when handleMint ends, the collection still has every item it had at
\* the start, every item the flow picked up is minted or failed, and no item is
\* left in uploading or minting.
C12_FinalStatusPerItem ==
    (mpc = "done" /\ completedNFTs # <<>>) =>
        /\ DOMAIN generatedImages = 1..count
        /\ \A n \in Range(completedNFTs) : Status(n) \in {"minted", "failed"}
        /\ \A n \in Items : Status(n) \notin {"uploading", "minting"}

\* a flow over six items ended with minted and failed items
C12_Witness ==
    /\ mpc = "done"
    /\ Len(completedNFTs) = 6
    /\ \E n, m \in Range(completedNFTs) : Status(n) = "minted" /\ Status(m) = "failed"

\* The wallet signer's transactions that were sent and are not mined yet
InFlight == {t \in 1..Len(mintTxs) : mintTxs[t].state = "sent"}

\* C13: at most one chain-write transaction of the same signer is in flight at
\* any time; here for the wallet signer, which signs the batchMint transactions
\* of handleMint and the mint transactions of handleMintSingle.
C13_OneTxInFlight == Cardinality(InFlight) <= 1

\* A hash that came from the content-hash path
Simplified(h) == h.path = "sha256"

\* C14: a hash of the content-hash path is never stored as the imageHash or
\* metadataHash of an item and never passed to a mint transaction as a storage
\* root.
C14_ContentHashNotPresented ==
    /\ \A n \in Items :
          /\ ~Simplified(generatedImages[n].imageHash)
          /\ ~Simplified(generatedImages[n].metadataHash)
    /\ \A t \in 1..Len(mintTxs) : \A j \in 1..Len(mintTxs[t].nfts) :
          /\ ~Simplified(mintTxs[t].nfts[j].imageHash)
          /\ ~Simplified(mintTxs[t].nfts[j].metadataHash)

\* C15: an item whose external call is outstanding does not stay in its
\* in-progress status forever: when the call never responds the item becomes
\* failed (here for the generation calls of generateItem).
C15_HungCallFails ==
    \A n \in 1..MaxGenCount :
        (n \in Items /\ Status(n) = "generating")
            ~> (n \in Items /\ Status(n) \in {"completed", "failed"})

ImagesInFlight == {n \in DOMAIN imgOutcome : imgOutcome[n] = "pending"}
MetadataInFlight == {n \in DOMAIN metaOutcome : metaOutcome[n] = "pending"}

\* C17: in the upload phases of handleMint at most 5 uploads are in flight, and
\* the uploads in flight all belong to the current batch of 5: no upload of the
\* next batch starts before every upload of the batch before it returned.
C17_UploadBatchesBounded ==
    /\ Cardinality(ImagesInFlight \cup MetadataInFlight) <= 5
    /\ ImagesInFlight # {} =>
          /\ mpc = "image"
          /\ mi % 5 = 0
          /\ ImagesInFlight \subseteq Range(Slice(completedNFTs, mi, 5))
          /\ \A k \in 1..Min(mi, Len(completedNFTs)) :
                imgOutcome[completedNFTs[k]] \in {"ok", "fail"}
    /\ MetadataInFlight # {} =>
          /\ mpc = "meta"
          /\ mi % 5 = 0
          /\ MetadataInFlight \subseteq Nfts(Slice(imageUploadResults, mi, 5))
          /\ \A k \in 1..Min(mi, Len(imageUploadResults)) :
                metaOutcome[imageUploadResults[k].nft] \in {"ok", "fail"}

\* the second image batch is in flight after the five uploads of the first
C17_Witness ==
    /\ mpc = "image"
    /\ mi = 5
    /\ ImagesInFlight = {6}
    /\ \A n \in 1..5 : imgOutcome[n] \in {"ok", "fail"}

\* C18: a failure of the metadata generation call (an error body, a network
\* error or a reply that does not parse) does not change the outcome of the
\* item: whenever image generation answered success the item is completed, and
\* without a generated title it carries the fallback title.
C18_MetadataFailureDegrades ==
    \A k \in 1..Len(genCalls) :
        LET r == genCalls[k].reply IN
        (~r.pending /\ r.imageOk) =>
            /\ Status(genCalls[k].item) = "completed"
            /\ ~r.hasTitle => generatedImages[genCalls[k].item].title = "style Artifact"

\* The failing step a response names; null when the response has no such field
FailedStep(r) == IF "step" \in DOMAIN r THEN r.step ELSE Null

\* C19: a failed upload returns an error that names the failing step; a call
\* that failed after its submit transaction was confirmed names a step after
\* the confirmation, which tells it apart from a failure without on-chain effect.
C19_FailureIdentifiesStep ==
    (upc = "done" /\ ~response.success /\ txConfirmed)
        => FailedStep(response) \in {"replicate", "close"}

C21_NoDeduplication ==
    /\ [](upc = "done" /\ response.success => txConfirmed /\ txSent = 1)
    /\ [][(txConfirmed' /\ ~txConfirmed) =>
            /\ submissions' = Append(submissions, RootHash(contentLength))
            /\ submissionIndex' \in {Len(submissions), NoIndex}]_vars

\* the second upload of one payload returned success with index 1
C21_Witness ==
    /\ uploads = 2
    /\ upc = "done"
    /\ response.success
    /\ submissions = <<RootHash(contentLength), RootHash(contentLength)>>
    /\ submissionIndex = 1

\* C22: a request whose payload decodes to zero bytes is rejected: the call is
\* over as soon as the payload is decoded, with an error response, and no
\* transaction is sent for it.
C22_EmptyPayloadRejected ==
    (uploads > 0 /\ contentLength = 0 /\ upc # "idle") =>
        /\ upc = "done"
        /\ ~response.success
        /\ txSent = 0

\* image is the hash of item n's image upload, and metadata the hash of the
\* metadata that was built for item n from that image hash
OwnHashes(n, image, metadata) ==
    /\ image.kind = "image" /\ image.of = n
    /\ metadata.kind = "metadata" /\ metadata.of = n
    /\ metadata.image = image

\* C23: the metadata uploaded for an item embeds the hash of that item's own
\* image upload, and the imageHash and metadataHash stored on the item and
\* passed to mint for it are that item's own image and metadata hash, whatever
\* the order in which the uploads completed.
C23_HashesAttributedByItem ==
    /\ \A k \in 1..Len(imageUploadResults) :
          imageUploadResults[k].hash = ImageHash(imageUploadResults[k].nft)
    /\ \A k \in 1..Len(metadataUploadResults) :
          OwnHashes(metadataUploadResults[k].nft, metadataUploadResults[k].imageHash,
                    metadataUploadResults[k].metadataHash)
    /\ \A n \in Items :
          generatedImages[n].imageHash # NoHash =>
              OwnHashes(n, generatedImages[n].imageHash, generatedImages[n].metadataHash)
    /\ \A t \in 1..Len(mintTxs) : \A j \in 1..Len(mintTxs[t].nfts) :
          OwnHashes(mintTxs[t].nfts[j].nft, mintTxs[t].nfts[j].imageHash,
                    mintTxs[t].nfts[j].metadataHash)

\* C24: a manual retry of a failed item moves it to completed when the item
\* has an image, and to pending when it has none.
C24_RetryMovesItem ==
    [][\A n \in Items :
          (n \in regenerated' /\ n \notin regenerated
              /\ generatedImages[n].status = "failed") =>
                generatedImages'[n].status =
                    IF generatedImages[n].url # EmptyUrl THEN "completed" ELSE "pending"]_vars

\* GET <gateway>/file?root=r: the bytes the storage node holds under r
NotFound == 0 - 1

Download(root) ==
    IF \E f \in nodeFiles : f[1] = root
    THEN (CHOOSE f \in nodeFiles : f[1] = root)[2]
    ELSE NotFound

\* C25: after an upload of a payload returned success with root r, the gateway
\* URL <gateway>/file?root=r resolves to exactly the bytes of the payload.
C25_RoundTrip ==
    (upc = "done" /\ response.success) => Download(response.root) = contentLength

RECURSIVE Pow2(_)
Pow2(k) == IF k = 0 THEN 1 ELSE 2 * Pow2(k - 1)

C28_OnlyUploadedItemsMinted ==
    /\ [][Len(mintTxs') > Len(mintTxs) =>
            \A r \in Range(mintTxs'[Len(mintTxs')].nfts) :
                /\ imgOutcome[r.nft] = "ok" /\ metaOutcome[r.nft] = "ok"
                /\ r.imageHash = ImageHash(r.nft)
                /\ r.metadataHash = MetadataHash(r.nft, r.imageHash)
                /\ r.imageHash # NoHash /\ r.metadataHash # NoHash
                /\ Status(r.nft) = "minting"]_vars
    /\ [](\A n \in DOMAIN imgOutcome :
            imgOutcome[n] = "fail" => metaOutcome[n] = "none")
    /\ [](\A n \in DOMAIN imgOutcome :
            (imgOutcome[n] = "fail" \/ metaOutcome[n] = "fail") =>
                n \notin Nfts(metadataUploadResults))

C28_Witness ==
    /\ mpc = "mintWait"
    /\ Len(mintTxs) = 1
    /\ \E n, m \in Items : imgOutcome[n] = "fail" /\ metaOutcome[m] = "fail"
    /\ Len(mintTxs[1].nfts) = Len(completedNFTs) - 2

\* C29: no item is included in more than one mint transaction, under every
\* interleaving of handleMint with single-item mints; stated here for the
\* transactions that were confirmed, so that no item is minted twice.
C29_AtMostOneMintPerItem ==
    \A t, u \in 1..Len(mintTxs) :
        (t # u /\ mintTxs[t].state = "confirmed" /\ mintTxs[u].state = "confirmed") =>
            Nfts(mintTxs[t].nfts) \cap Nfts(mintTxs[u].nfts) = {}

\* The confirmed transactions that carry item n and whose hash the item stores
OwnTxs(n) ==
    {t \in 1..Len(mintTxs) :
        /\ mintTxs[t].state = "confirmed"
        /\ n \in Nfts(mintTxs[t].nfts)
        /\ generatedImages[n].txHash = TxHash(t)}

\* C30: every minted item has a token id that was parsed from an NFTMinted
\* event of its own mint transaction, also when the receipt has fewer
\* NFTMinted events than the batch has items.
C30_MintedHasOwnTokenId ==
    \A n \in Items :
        Status(n) = "minted" =>
            \E t \in OwnTxs(n) :
                generatedImages[n].tokenId \in Range(ParseTokenIds(mintTxs[t].logs))

Next == NextUpload \/ NextGen \/ NextMint \/ NextSingle \/ NextCard \/ NextRetry \/ NextReceipt

Spec == Init /\ [][Next]_vars
====
